---- MODULE Spec2Model ----
(***************************************************************************)
(* Spaced-repetition scheduler of the AI learning assistant                *)
(* (src/src/services/firebaseService.ts, "Revision Schedules").            *)
(*                                                                         *)
(* The Firestore collections 'storedContent' and 'revisionSchedules' are   *)
(* the persistent state.  Every exported async function is a process whose *)
(* steps are cut at its awaits: a step runs the synchronous code up to the *)
(* next Firestore round trip, and the round trip itself either succeeds or *)
(* is rejected.                                                            *)
(*                                                                         *)
(* Numbers.  easeFactor is a double in the code; here it is kept exactly,  *)
(* in hundredths (2.5 is 250).  Every change to it is a whole number of    *)
(* hundredths, so the only place a floating-point error could show is a    *)
(* product interval * easeFactor that falls exactly on a half.  Time is in *)
(* clock ticks, DayTicks of them to a calendar day.                        *)
(***************************************************************************)
EXTENDS Integers, Sequences, FiniteSets, TLC

VARIABLES
    now,                \* the wall clock read by new Date()
    storedContent,      \* collection 'storedContent': content id -> owning user id
    revisionSchedules,  \* collection 'revisionSchedules': schedule id -> document
    creator,            \* the running createRevisionSchedulesForContent call
    deleter,            \* the running deleteStoredContent call
    calls,              \* the running updateRevisionAfterReview calls
    nextId,             \* the ids addDoc has not handed out yet, per collection
    started,            \* how many updateRevisionAfterReview calls were made
    recorded,           \* per schedule id, how many of them had their updateDoc applied
    recalled,           \* per schedule id, how many of those had quality >= 3
    due,                \* the running getDueRevisions call
    ui                  \* the state of the RevisionMode component

vars == <<now, storedContent, revisionSchedules, creator, deleter, calls, nextId, started,
          recorded, recalled, due, ui>>

----------------------------------------------------------------------------
(* Bounds of the model *)

MaxClock == 2
DayTicks == 2
MaxTopics == 2
MaxSchedules == 2
MaxContents == 2
MaxCalls == 2
MaxReviews == 2
MaxDepth == 5
MaxScenario == 6
MaxSessions == 2
QualitySlack == 1

(* Constants of the program *)

InitialEase == 250
EaseFloor == 130
InitialInterval == 1
FirstInterval == 1
ResetInterval == 1
SecondInterval == 6
MasteryMax == 100

----------------------------------------------------------------------------
(* Identifiers.  User ids are Firebase Auth uids and content ids are        *)
(* Firestore auto-ids: two different kinds of string, never equal.          *)

UserIds == {"u1", "u2"}
ContentId(k) == ToString(k)
ContentIds == {ContentId(k) : k \in 1..MaxContents}
ScheduleIds == 1..MaxSchedules

Null == 0 - 1

Topic(i) == [id |-> i, name |-> i]
TopicLists == {[i \in 1..n |-> Topic(i)] : n \in 0..MaxTopics}

\* quality is a JavaScript number: the rating buttons pass 0..5, the function
\* itself accepts anything.
Qualities == (0 - QualitySlack)..(5 + QualitySlack)
ValidQuality(q) == q \in 0..5

Max(a, b) == IF a >= b THEN a ELSE b
Min(a, b) == IF a <= b THEN a ELSE b

\* MathRound with the fraction dropped (Math.floor)
MathFloor(n, d) == {n \div d}

\* Math.round of the double that stands for the quotient n / d (d > 0), as a
\* set of possible results.  Away from a half the nearest integer is the
\* result.  When n / d is exactly a half, the double is that half or a
\* neighbour of it (2.5 + 0.1 - 0.32 - 0.54 - 0.14 is 1.4999999999999998 in
\* doubles, not 1.5), so Math.round gives the integer above or the one below.
MathRound(n, d) ==
    LET below == n \div d
        twice == 2 * (n - below * d)
    IN  IF twice < d THEN {below}
        ELSE IF twice > d THEN {below + 1}
        ELSE {below, below + 1}

----------------------------------------------------------------------------
(* The SM-2 update of updateRevisionAfterReview, as pure functions of the   *)
(* document that was read and of the quality.                               *)

\* EaseDelta without the quadratic term: 0.1 - (5 - quality) * 0.08
EaseDeltaLinear(quality) == 10 - (5 - quality) * 8

\* 0.1 - (5 - quality) * (0.08 + (5 - quality) * 0.02), in hundredths
EaseDelta(quality) == 10 - (5 - quality) * (8 + (5 - quality) * 2)

\* NewEaseFactor without Math.max(1.3, ...)
NewEaseFactorUnclamped(schedule, quality) ==
    schedule.easeFactor + EaseDelta(quality)

NewEaseFactor(schedule, quality) ==
    Max(EaseFloor, schedule.easeFactor + EaseDelta(quality))

\* NewInterval with a failed review making the topic due at once (interval 0)
NewIntervalResetZero(schedule, quality) ==
    IF quality < 3
    THEN {0}
    ELSE IF schedule.reviewCount = 0
         THEN {FirstInterval}
         ELSE IF schedule.reviewCount = 1
              THEN {SecondInterval}
              ELSE MathRound(schedule.interval * NewEaseFactor(schedule, quality), 100)

\* NewInterval with the failed-review test off by one (quality < 2)
NewIntervalLenient(schedule, quality) ==
    IF quality < 2
    THEN {ResetInterval}
    ELSE IF schedule.reviewCount = 0
         THEN {FirstInterval}
         ELSE IF schedule.reviewCount = 1
              THEN {SecondInterval}
              ELSE MathRound(schedule.interval * NewEaseFactor(schedule, quality), 100)

\* NewInterval with the product taken with the ease factor that was read
NewIntervalPriorEase(schedule, quality) ==
    IF quality < 3
    THEN {ResetInterval}
    ELSE IF schedule.reviewCount = 0
         THEN {FirstInterval}
         ELSE IF schedule.reviewCount = 1
              THEN {SecondInterval}
              ELSE MathRound(schedule.interval * schedule.easeFactor, 100)

\* The values newInterval can take (one value, except on a rounding tie).
NewInterval(schedule, quality) ==
    IF quality < 3
    THEN {ResetInterval}
    ELSE IF schedule.reviewCount = 0
         THEN {FirstInterval}
         ELSE IF schedule.reviewCount = 1
              THEN {SecondInterval}
              ELSE MathRound(schedule.interval * NewEaseFactor(schedule, quality), 100)

\* NewMasteryLevel without Math.min(100, ...)
NewMasteryLevelUncapped(schedule, quality) ==
    Max(0, schedule.masteryLevel + (2 * quality - 5) * 5)

\* NewMasteryLevel with the recall threshold as its midpoint: (quality - 3) * 10
NewMasteryLevelFromThree(schedule, quality) ==
    Min(MasteryMax, Max(0, schedule.masteryLevel + (quality - 3) * 10))

\* schedule.masteryLevel + (quality - 2.5) * 10, clamped
NewMasteryLevel(schedule, quality) ==
    Min(MasteryMax, Max(0, schedule.masteryLevel + (2 * quality - 5) * 5))

\* ReviewUpdate with reviewCount counting the successful recalls only
ReviewUpdateCountingRecalls(schedule, quality, newInterval, t1, t2) ==
    [interval       |-> newInterval,
     easeFactor     |-> NewEaseFactor(schedule, quality),
     reviewCount    |-> schedule.reviewCount + (IF quality >= 3 THEN 1 ELSE 0),
     lastReviewDate |-> t2,
     nextReviewDate |-> t1 + newInterval * DayTicks,
     masteryLevel   |-> NewMasteryLevel(schedule, quality)]

\* The object handed to updateDoc.  t1 is the clock as read for
\* nextReviewDate, t2 the clock as read for lastReviewDate.
ReviewUpdate(schedule, quality, newInterval, t1, t2) ==
    [interval       |-> newInterval,
     easeFactor     |-> NewEaseFactor(schedule, quality),
     reviewCount    |-> schedule.reviewCount + 1,
     lastReviewDate |-> t2,
     nextReviewDate |-> t1 + newInterval * DayTicks,
     masteryLevel   |-> NewMasteryLevel(schedule, quality)]

\* ApplyUpdate with scheduleType among the fields that are written
ApplyUpdateWritingType(doc, update) ==
    [f \in DOMAIN doc |-> IF f \in DOMAIN update THEN update[f]
                          ELSE IF f = "scheduleType" THEN "custom" ELSE doc[f]]

\* updateDoc: the named fields are replaced, the others kept, in one write.
ApplyUpdate(doc, update) ==
    [f \in DOMAIN doc |-> IF f \in DOMAIN update THEN update[f] ELSE doc[f]]

\* The document createRevisionSchedulesForContent hands to saveRevisionSchedule.
NewSchedule(userId, contentId, topic, tomorrow) ==
    [userId         |-> userId,
     contentId      |-> contentId,
     topicId        |-> topic.id,
     topicName      |-> topic.name,
     scheduleType   |-> "daily",
     nextReviewDate |-> tomorrow,
     lastReviewDate |-> Null,
     reviewCount    |-> 0,
     masteryLevel   |-> 0,
     interval       |-> InitialInterval,
     easeFactor     |-> InitialEase]

\* orderBy('nextReviewDate', 'asc'): Firestore orders equal dates by document id.
RECURSIVE OrderByNextReviewDate(_)
OrderByNextReviewDate(ids) ==
    IF ids = {}
    THEN << >>
    ELSE LET first == CHOOSE id \in ids : \A other \in ids :
                          \/ revisionSchedules[id].nextReviewDate
                                 < revisionSchedules[other].nextReviewDate
                          \/ /\ revisionSchedules[id].nextReviewDate
                                    = revisionSchedules[other].nextReviewDate
                             /\ id <= other
         IN  <<first>> \o OrderByNextReviewDate(ids \ {first})

\* The query of getDueRevisions: where('userId', '==', userId),
\* where('nextReviewDate', '<=', Timestamp.fromDate(now)), ordered.
GetDueRevisions(userId, asOf) ==
    OrderByNextReviewDate(
        {id \in DOMAIN revisionSchedules :
            /\ revisionSchedules[id].userId = userId
            /\ revisionSchedules[id].nextReviewDate <= asOf})

\* getRevisionSchedules(userId): where('userId', '==', userId), ordered.
GetRevisionSchedules(userId) ==
    OrderByNextReviewDate(
        {id \in DOMAIN revisionSchedules : revisionSchedules[id].userId = userId})

----------------------------------------------------------------------------
(* Processes *)

IdleCreator ==
    [pc |-> "idle", userId |-> "", contentId |-> "", topics |-> <<>>,
     next |-> 0, tomorrow |-> 0, created |-> {}, failed |-> {}]

IdleDeleter ==
    [pc |-> "idle", contentId |-> "", schedules |-> << >>, atStart |-> {},
     failed |-> {}, result |-> "none"]

NoUpdate ==
    [interval |-> 0, easeFactor |-> 0, reviewCount |-> 0,
     lastReviewDate |-> 0, nextReviewDate |-> 0, masteryLevel |-> 0]

\* `schedule` before docSnap.data() has been taken
NoSchedule ==
    [userId |-> "", contentId |-> "", topicId |-> 0, topicName |-> 0,
     scheduleType |-> "", nextReviewDate |-> 0, lastReviewDate |-> 0,
     reviewCount |-> 0, masteryLevel |-> 0, interval |-> 0, easeFactor |-> 0]

\* A call of getDueRevisions: its argument, its local `now`, what it returned
\* and whether its catch ran.
IdleDue ==
    [pc |-> "idle", userId |-> "", now |-> 0, result |-> << >>, caught |-> FALSE]

\* The closure of a handleCompleteRevision call that is waiting for its
\* updateRevisionAfterReview: the currentRevisionIndex and dueRevisions.length
\* of the render in which the button was clicked, and the session it was.
NoHandler == [active |-> FALSE, index |-> 0, length |-> 0, session |-> 0]

\* RevisionMode when it is mounted: the useState initial values.  `user` is
\* the signed-in user of the app context, `loading` whether a
\* loadDueRevisions is waiting for getDueRevisions, `handlers` the closures
\* of the handleCompleteRevision calls by the slot of `calls` they use.
\* `session` numbers the sessions started, and `dueAtStart` is the set of
\* schedules of the user that were due in the store when the last one started.
InitialUI ==
    [user |-> "", dueRevisions |-> << >>, currentRevisionIndex |-> 0,
     isDoingRevision |-> FALSE, loading |-> FALSE,
     handlers |-> [c \in 1..MaxCalls |-> NoHandler],
     session |-> 0, dueAtStart |-> {}]

\* A call of updateRevisionAfterReview: its arguments, its locals (whether
\* docSnap exists, the schedule read, the object built for updateDoc) and how
\* its promise settled.
IdleCall ==
    [pc |-> "idle", scheduleId |-> 0, quality |-> 0, exists |-> FALSE,
     schedule |-> NoSchedule, update |-> NoUpdate, result |-> "none"]

Init ==
    /\ now = 0
    /\ storedContent = << >>
    /\ revisionSchedules = << >>
    /\ creator = IdleCreator
    /\ deleter = IdleDeleter
    /\ calls = [c \in 1..MaxCalls |-> IdleCall]
    /\ nextId = [content |-> 1, schedule |-> 1]
    /\ started = 0
    /\ recorded = [id \in ScheduleIds |-> 0]
    /\ recalled = [id \in ScheduleIds |-> 0]
    /\ due = IdleDue
    /\ ui = InitialUI

\* Time passes.
Tick ==
    /\ now < MaxClock
    /\ now' = now + 1
    /\ UNCHANGED <<storedContent, revisionSchedules, creator, deleter, calls, nextId, started, recorded, recalled, due, ui>>

----------------------------------------------------------------------------
(* Upload of a document (QuizGenerator): saveStoredContent, then           *)
(* createRevisionSchedulesForContent with the id it returned.               *)

\* saveStoredContent resolved; createRevisionSchedulesForContent computes
\* tomorrow and enters its loop.
CreateStart(userId, topics) ==
    /\ creator.pc \in {"idle", "done"}
    /\ nextId.content <= MaxContents
    /\ nextId.schedule + Len(topics) - 1 <= MaxSchedules
    /\ storedContent' = (ContentId(nextId.content) :> userId) @@ storedContent
    /\ nextId' = [nextId EXCEPT !.content = @ + 1]
    /\ creator' = [pc |-> "loop", userId |-> userId,
                   contentId |-> ContentId(nextId.content), topics |-> topics,
                   next |-> 1, tomorrow |-> now + DayTicks,
                   created |-> {}, failed |-> {}]
    /\ UNCHANGED <<now, revisionSchedules, deleter, calls, started, recorded, recalled, due, ui>>

\* One saveRevisionSchedule of the loop succeeded: addDoc stored the document.
CreateSaved ==
    /\ revisionSchedules' =
           (nextId.schedule :> NewSchedule(creator.userId, creator.contentId,
                                           creator.topics[creator.next],
                                           creator.tomorrow))
           @@ revisionSchedules
    /\ nextId' = [nextId EXCEPT !.schedule = @ + 1]
    /\ creator' = [creator EXCEPT !.next = @ + 1,
                                  !.created = @ \cup {creator.next}]

\* One saveRevisionSchedule threw: it rethrows, and the catch around the whole
\* loop logs the error and returns.
CreateThrown ==
    /\ creator' = [creator EXCEPT !.pc = "done",
                                  !.failed = @ \cup {creator.next}]
    /\ UNCHANGED <<revisionSchedules, nextId>>

\* One turn of `for (const topic of topics)`: the loop ends, or the next
\* topic's schedule is saved or fails to be.
CreateStep ==
    /\ creator.pc = "loop"
    /\ IF creator.next > Len(creator.topics)
       THEN /\ creator' = [creator EXCEPT !.pc = "done"]
            /\ UNCHANGED <<revisionSchedules, nextId>>
       ELSE CreateSaved \/ CreateThrown
    /\ UNCHANGED <<now, storedContent, deleter, calls, started, recorded, recalled, due, ui>>

----------------------------------------------------------------------------
(* deleteStoredContent(contentId) *)

SchedulesOfContent(contentId) ==
    {id \in DOMAIN revisionSchedules : revisionSchedules[id].contentId = contentId}

DeleteStart(contentId) ==
    /\ deleter.pc \in {"idle", "done"}
    /\ contentId \in {ContentId(k) : k \in 1..(nextId.content - 1)}
    /\ deleter' = [pc |-> "deleteDoc", contentId |-> contentId, schedules |-> << >>,
                   atStart |-> SchedulesOfContent(contentId), failed |-> {},
                   result |-> "none"]
    /\ UNCHANGED <<now, storedContent, revisionSchedules, creator, calls, nextId, started, recorded, recalled, due, ui>>

\* await deleteDoc(doc(db, 'storedContent', contentId))
DeleteContentDoc ==
    /\ deleter.pc = "deleteDoc"
    /\ \/ /\ storedContent' =
                [c \in DOMAIN storedContent \ {deleter.contentId} |-> storedContent[c]]
          /\ deleter' = [deleter EXCEPT !.pc = "query"]
       \/ /\ deleter' = [deleter EXCEPT !.pc = "done", !.result = "error"]
          /\ UNCHANGED storedContent
    /\ UNCHANGED <<now, revisionSchedules, creator, calls, nextId, started, recorded, recalled, due, ui>>

\* const schedules = await getRevisionSchedules(contentId): the query, or []
\* when the query fails (getRevisionSchedules catches and returns []).
DeleteQuery ==
    /\ deleter.pc = "query"
    /\ \/ deleter' = [deleter EXCEPT !.pc = "loop",
                                     !.schedules = GetRevisionSchedules(deleter.contentId)]
       \/ deleter' = [deleter EXCEPT !.pc = "loop", !.schedules = << >>]
    /\ UNCHANGED <<now, storedContent, revisionSchedules, creator, calls, nextId, started, recorded, recalled, due, ui>>

\* One turn of `for (const schedule of schedules)`: the loop ends, or the
\* next deleteDoc succeeds, or it throws and the function rethrows.
DeleteStep ==
    /\ deleter.pc = "loop"
    /\ IF deleter.schedules = << >>
       THEN /\ deleter' = [deleter EXCEPT !.pc = "done", !.result = "ok"]
            /\ UNCHANGED revisionSchedules
       ELSE \/ /\ revisionSchedules' =
                     [id \in DOMAIN revisionSchedules \ {Head(deleter.schedules)}
                         |-> revisionSchedules[id]]
               /\ deleter' = [deleter EXCEPT !.schedules = Tail(@)]
            \/ /\ deleter' = [deleter EXCEPT !.pc = "done", !.result = "error",
                                             !.failed = @ \cup {Head(deleter.schedules)}]
               /\ UNCHANGED revisionSchedules
    /\ UNCHANGED <<now, storedContent, creator, calls, nextId, started, recorded, recalled, due, ui>>

----------------------------------------------------------------------------
(* updateRevisionAfterReview(scheduleId, quality) *)

\* The call is made; getDoc is on its way.  (Calls are told apart by c alone:
\* a new call takes the first c that is free.)
ReviewCall(c, scheduleId, quality) ==
    /\ calls[c].pc \in {"idle", "done"}
    /\ \A d \in 1..(c - 1) : calls[d].pc \notin {"idle", "done"}
    /\ started' = started + 1
    /\ calls' = [calls EXCEPT ![c] = [IdleCall EXCEPT !.pc = "getDoc",
                                                      !.scheduleId = scheduleId,
                                                      !.quality = quality]]
    /\ UNCHANGED <<now, storedContent, revisionSchedules, creator, deleter, nextId,
                    recorded, recalled, due, ui>>

\* ReviewReadThrown with the error caught around getDoc alone and the update
\* going on from the values of a new schedule
ReviewReadThrownDefaults(c) ==
    /\ calls' = [calls EXCEPT
           ![c].pc = "updateDoc",
           ![c].update = ReviewUpdate([NoSchedule EXCEPT !.interval = InitialInterval,
                                                         !.easeFactor = InitialEase],
                                      calls[c].quality, ResetInterval, now, now)]
    /\ UNCHANGED now

\* getDoc rejected: the catch logs and rethrows.
ReviewReadThrown(c) ==
    /\ calls' = [calls EXCEPT ![c].pc = "done", ![c].result = "error"]
    /\ UNCHANGED now

\* if (!docSnap.exists()) return;
ReviewReadMissing(c) ==
    /\ calls[c].scheduleId \notin DOMAIN revisionSchedules
    /\ calls' = [calls EXCEPT ![c].pc = "done", ![c].result = "ok"]
    /\ UNCHANGED now

\* The document was read: the new values are computed and updateDoc is
\* called with them.  The clock is read twice, by the new Date() of
\* nextReviewDate and then by the new Date() of lastReviewDate, and may have
\* moved on in between.
ReviewReadFound(c) ==
    /\ calls[c].scheduleId \in DOMAIN revisionSchedules
    /\ \E t2 \in {now, Min(now + 1, MaxClock)},
          newInterval \in NewInterval(revisionSchedules[calls[c].scheduleId],
                                      calls[c].quality) :
          /\ calls' = [calls EXCEPT
                 ![c].pc = "updateDoc",
                 ![c].exists = TRUE,
                 ![c].schedule = revisionSchedules[calls[c].scheduleId],
                 ![c].update = ReviewUpdate(revisionSchedules[calls[c].scheduleId],
                                            calls[c].quality, newInterval, now, t2)]
          /\ now' = t2

\* await getDoc(...) returns, one way or another.
ReviewRead(c) ==
    /\ calls[c].pc = "getDoc"
    /\ \/ ReviewReadThrown(c)
       \/ ReviewReadMissing(c)
       \/ ReviewReadFound(c)
    /\ UNCHANGED <<storedContent, revisionSchedules, creator, deleter, nextId, started, recorded, recalled, due, ui>>

\* ReviewWrite with a write done field by field: a rejection comes after
\* interval and easeFactor were stored.
ReviewWriteFieldByField(c) ==
    /\ calls[c].pc = "updateDoc"
    /\ \/ /\ calls[c].scheduleId \in DOMAIN revisionSchedules
          /\ revisionSchedules' =
                [revisionSchedules EXCEPT
                    ![calls[c].scheduleId] = ApplyUpdate(@, calls[c].update)]
          /\ recorded' = [recorded EXCEPT ![calls[c].scheduleId] = @ + 1]
          /\ recalled' = [recalled EXCEPT ![calls[c].scheduleId] =
                              IF calls[c].quality >= 3 THEN @ + 1 ELSE @]
          /\ calls' = [calls EXCEPT ![c].pc = "done", ![c].result = "ok",
                                    ![c].update = NoUpdate]
       \/ /\ calls[c].scheduleId \in DOMAIN revisionSchedules
          /\ revisionSchedules' =
                [revisionSchedules EXCEPT
                    ![calls[c].scheduleId].interval = calls[c].update.interval,
                    ![calls[c].scheduleId].easeFactor = calls[c].update.easeFactor]
          /\ calls' = [calls EXCEPT ![c].pc = "done", ![c].result = "error",
                                    ![c].update = NoUpdate]
          /\ UNCHANGED <<recorded, recalled>>
    /\ UNCHANGED <<now, storedContent, creator, deleter, nextId, started, due, ui>>

\* ReviewWrite with reviewCount written as increment(1): one more than what
\* the store holds, not one more than what the call read.
ReviewWriteIncrement(c) ==
    /\ calls[c].pc = "updateDoc"
    /\ \/ /\ calls[c].scheduleId \in DOMAIN revisionSchedules
          /\ revisionSchedules' =
                [revisionSchedules EXCEPT
                    ![calls[c].scheduleId] =
                        [ApplyUpdate(@, calls[c].update) EXCEPT !.reviewCount =
                            revisionSchedules[calls[c].scheduleId].reviewCount + 1]]
          /\ recorded' = [recorded EXCEPT ![calls[c].scheduleId] = @ + 1]
          /\ recalled' = [recalled EXCEPT ![calls[c].scheduleId] =
                              IF calls[c].quality >= 3 THEN @ + 1 ELSE @]
          /\ calls' = [calls EXCEPT ![c].pc = "done", ![c].result = "ok",
                                    ![c].update = NoUpdate]
       \/ /\ calls' = [calls EXCEPT ![c].pc = "done", ![c].result = "error",
                                    ![c].update = NoUpdate]
          /\ UNCHANGED <<revisionSchedules, recorded, recalled>>
    /\ UNCHANGED <<now, storedContent, creator, deleter, nextId, started, due, ui>>

\* await updateDoc(...) returns: the write was applied as a whole, or it was
\* rejected and nothing was written (always so when the document is gone).
ReviewWrite(c) ==
    /\ calls[c].pc = "updateDoc"
    /\ \/ /\ calls[c].scheduleId \in DOMAIN revisionSchedules
          /\ revisionSchedules' =
                [revisionSchedules EXCEPT
                    ![calls[c].scheduleId] = ApplyUpdate(@, calls[c].update)]
          /\ recorded' = [recorded EXCEPT ![calls[c].scheduleId] = @ + 1]
          /\ recalled' = [recalled EXCEPT ![calls[c].scheduleId] =
                              IF calls[c].quality >= 3 THEN @ + 1 ELSE @]
          /\ calls' = [calls EXCEPT ![c].pc = "done", ![c].result = "ok",
                                    ![c].update = NoUpdate]
       \/ /\ calls' = [calls EXCEPT ![c].pc = "done", ![c].result = "error",
                                    ![c].update = NoUpdate]
          /\ UNCHANGED <<revisionSchedules, recorded, recalled>>
    /\ UNCHANGED <<now, storedContent, creator, deleter, nextId, started, due, ui>>

----------------------------------------------------------------------------
(* getDueRevisions(userId) *)

\* The call is made: const now = new Date(), and getDocs is on its way.
DueCall(userId) ==
    /\ due.pc \in {"idle", "done"}
    /\ ~ui.loading
    /\ due' = [IdleDue EXCEPT !.pc = "getDocs", !.userId = userId, !.now = now]
    /\ UNCHANGED <<now, storedContent, revisionSchedules, creator, deleter, calls, nextId,
                    started, recorded, recalled, ui>>

\* await getDocs(q) returns the documents the query matches at that moment,
\* or it is rejected: the catch logs the error and the function returns [].
DueQuery ==
    /\ due.pc = "getDocs"
    /\ \/ due' = [due EXCEPT !.pc = "done",
                              !.result = GetDueRevisions(due.userId, due.now)]
       \/ due' = [due EXCEPT !.pc = "done", !.result = << >>, !.caught = TRUE]
    /\ UNCHANGED <<now, storedContent, revisionSchedules, creator, deleter, calls, nextId,
                    started, recorded, recalled, ui>>

DueNext(userIds) ==
    \/ \E userId \in userIds : DueCall(userId)
    \/ DueQuery

----------------------------------------------------------------------------

(* The Revision Schedule tab of RevisionMode.  A step is an event handler  *)
(* or the continuation of an await, run to its end; the setState calls of  *)
(* a step take effect together.                                            *)

\* The schedules of the user that are due in the store now.
DueInStore(userId) ==
    {id \in DOMAIN revisionSchedules :
        /\ revisionSchedules[id].userId = userId
        /\ revisionSchedules[id].nextReviewDate <= now}

\* loadDueRevisions up to its await: getDueRevisions(user.id) is called.  (A
\* load asked for while another is waiting takes its place.)
LoadDueRevisions ==
    due' = [IdleDue EXCEPT !.pc = "getDocs", !.userId = ui.user, !.now = now]

\* useEffect(..., [user]): the user is there, loadDueRevisions is called.
UIMount(userId) ==
    /\ ui.user = ""
    /\ ui' = [ui EXCEPT !.user = userId, !.loading = TRUE]
    /\ due' = [IdleDue EXCEPT !.pc = "getDocs", !.userId = userId, !.now = now]
    /\ UNCHANGED <<now, storedContent, revisionSchedules, creator, deleter, calls, nextId,
                    started, recorded, recalled>>

\* loadDueRevisions after its await: setDueRevisions(revisions).
UILoaded ==
    /\ ui.loading
    /\ due.pc = "done"
    /\ ui' = [ui EXCEPT !.dueRevisions = due.result, !.loading = FALSE]
    /\ UNCHANGED <<now, storedContent, revisionSchedules, creator, deleter, calls, nextId,
                    started, recorded, recalled, due>>

\* startRevisionSession, by the button shown when dueRevisions.length > 0
\* and !isDoingRevision.
UIStartSession ==
    /\ ui.user # ""
    /\ ~ui.isDoingRevision
    /\ Len(ui.dueRevisions) > 0
    /\ ui.session < MaxSessions
    /\ ui' = [ui EXCEPT !.isDoingRevision = TRUE, !.currentRevisionIndex = 0,
                        !.session = @ + 1, !.dueAtStart = DueInStore(ui.user)]
    /\ UNCHANGED <<now, storedContent, revisionSchedules, creator, deleter, calls, nextId,
                    started, recorded, recalled, due>>

\* Exit Session: setIsDoingRevision(false).
UIExit ==
    /\ ui.isDoingRevision
    /\ Len(ui.dueRevisions) > 0
    /\ ui' = [ui EXCEPT !.isDoingRevision = FALSE]
    /\ UNCHANGED <<now, storedContent, revisionSchedules, creator, deleter, calls, nextId,
                    started, recorded, recalled, due>>

\* A rating button: handleCompleteRevision(dueRevisions[currentRevisionIndex].id,
\* quality) up to its await.  The buttons stay enabled while an update is on
\* its way.  (With currentRevisionIndex out of range the onClick throws on
\* `.id` and nothing changes.)
UIRate(c, quality) ==
    /\ ui.isDoingRevision
    /\ Len(ui.dueRevisions) > 0
    /\ ui.currentRevisionIndex < Len(ui.dueRevisions)
    /\ calls[c].pc \in {"idle", "done"}
    /\ ~ui.handlers[c].active
    /\ \A d \in 1..(c - 1) : calls[d].pc \notin {"idle", "done"} \/ ui.handlers[d].active
    /\ started' = started + 1
    /\ calls' = [calls EXCEPT ![c] =
                    [IdleCall EXCEPT !.pc = "getDoc",
                                     !.scheduleId =
                                         ui.dueRevisions[ui.currentRevisionIndex + 1],
                                     !.quality = quality]]
    /\ ui' = [ui EXCEPT !.handlers[c] =
                  [active |-> TRUE, index |-> ui.currentRevisionIndex,
                   length |-> Len(ui.dueRevisions), session |-> ui.session]]
    /\ UNCHANGED <<now, storedContent, revisionSchedules, creator, deleter, nextId,
                    recorded, recalled, due>>

\* handleCompleteRevision after its await.  currentRevisionIndex and
\* dueRevisions in the test are those of the render of the click; the
\* updater prev => prev + 1 works on the state of now.
UIRated(c) ==
    /\ ui.handlers[c].active
    /\ calls[c].pc = "done"
    /\ IF calls[c].result = "error"
       THEN /\ ui' = [ui EXCEPT !.handlers[c].active = FALSE]
            /\ UNCHANGED due
       ELSE IF ui.handlers[c].index < ui.handlers[c].length - 1
            THEN /\ ui' = [ui EXCEPT !.handlers[c].active = FALSE,
                                     !.currentRevisionIndex = @ + 1]
                 /\ UNCHANGED due
            ELSE /\ ui' = [ui EXCEPT !.handlers[c].active = FALSE,
                                     !.isDoingRevision = FALSE,
                                     !.currentRevisionIndex = 0,
                                     !.loading = TRUE]
                 /\ LoadDueRevisions
    /\ UNCHANGED <<now, storedContent, revisionSchedules, creator, deleter, calls, nextId,
                    started, recorded, recalled>>

UINext(userIds, maxCalls, maxReviews, qualities) ==
    \/ \E userId \in userIds : UIMount(userId)
    \/ UILoaded
    \/ UIStartSession
    \/ UIExit
    \/ /\ started < maxReviews
       /\ \E c \in 1..maxCalls, quality \in qualities : UIRate(c, quality)
    \/ \E c \in 1..maxCalls : UIRated(c)

----------------------------------------------------------------------------

\* The operations on stored content and on the schedules that belong to it.
ContentNext(userIds, topicLists) ==
    \/ \E userId \in userIds, topics \in topicLists : CreateStart(userId, topics)
    \/ CreateStep
    \/ \E contentId \in ContentIds : DeleteStart(contentId)
    \/ DeleteContentDoc
    \/ DeleteQuery
    \/ DeleteStep

\* At most maxCalls reviews at a time, maxReviews in all.
ReviewNext(maxCalls, maxReviews, scheduleIds, qualities) ==
    \/ /\ started < maxReviews
       /\ \E c \in 1..maxCalls, scheduleId \in scheduleIds, quality \in qualities :
             ReviewCall(c, scheduleId, quality)
    \/ \E c \in 1..maxCalls : ReviewRead(c)
    \/ \E c \in 1..maxCalls : ReviewWrite(c)

Next ==
    \/ Tick
    \/ ContentNext(UserIds, TopicLists)
    \/ ReviewNext(MaxCalls, MaxReviews, ScheduleIds, Qualities)
    \/ DueNext(UserIds)
    \/ UINext(UserIds, MaxCalls, MaxReviews, 0..5)

Spec == Init /\ [][Next]_vars

\* The specifications below take some of the disjuncts of Next, with some of
\* its inputs: each of their behaviours is a behaviour of Spec.

\* Uploads and deletions of content, with the clock running.
NextContent == Tick \/ ContentNext(UserIds, TopicLists)
SpecContent == Init /\ [][NextContent]_vars

\* Concurrent reviews of one schedule (id 1, once it is created) and of an id
\* that is never in the store (id 2), with the qualities that are out of range
\* and three that are in range.  The clock moves only between the two
\* readings a review makes of it.
NextReview ==
    \/ nextId.content = 1 /\ CreateStart("u1", <<Topic(1)>>)
    \/ CreateStep
    \/ ReviewNext(MaxCalls, MaxReviews, {1, 2}, (Qualities \ (0..5)) \cup {0, 3, 5})
SpecReview == Init /\ [][NextReview]_vars

\* Reviews of one schedule, one after the other, with every quality in range.
NextSM2 ==
    \/ nextId.content = 1 /\ CreateStart("u1", <<Topic(1)>>)
    \/ CreateStep
    \/ ReviewNext(1, MaxDepth, {1}, 0..5)
SpecSM2 == Init /\ [][NextSM2]_vars

\* Uploads by two users and queries for what is due, with the clock running.
NextDue ==
    \/ Tick
    \/ \E userId \in UserIds, topics \in TopicLists : CreateStart(userId, topics)
    \/ CreateStep
    \/ DueNext(UserIds)
SpecDue == Init /\ [][NextDue]_vars

\* Concurrent reviews of the two schedules of one content.
NextFrame ==
    \/ nextId.content = 1 /\ CreateStart("u1", <<Topic(1), Topic(2)>>)
    \/ CreateStep
    \/ ReviewNext(MaxCalls, MaxReviews, ScheduleIds, {0, 4})
SpecFrame == Init /\ [][NextFrame]_vars

\* Reviews of one schedule, one after the other and one more of them than in
\* SpecSM2, with two qualities of failed recall and two of successful recall.
NextScenario ==
    \/ nextId.content = 1 /\ CreateStart("u1", <<Topic(1)>>)
    \/ CreateStep
    \/ ReviewNext(1, MaxScenario, {1}, {0, 1, 3, 4})
SpecScenario == Init /\ [][NextScenario]_vars

\* Reviews of one schedule, one after the other, and queries for what is
\* due, with the clock running.
NextAgenda ==
    \/ Tick
    \/ nextId.content = 1 /\ CreateStart("u1", <<Topic(1)>>)
    \/ CreateStep
    \/ ReviewNext(1, MaxReviews, {1}, {0, 4})
    \/ DueNext({"u1"})
SpecAgenda == Init /\ [][NextAgenda]_vars

\* Revision sessions of one user on the two schedules of one content, with
\* the clock running: the reviews are those the rating buttons make.
NextSession ==
    \/ Tick
    \/ nextId.content = 1 /\ CreateStart("u1", <<Topic(1), Topic(2)>>)
    \/ CreateStep
    \/ UINext({"u1"}, MaxCalls, MaxReviews, {1, 4})
    \/ DueQuery
    \/ \E c \in 1..MaxCalls : ReviewRead(c)
    \/ \E c \in 1..MaxCalls : ReviewWrite(c)
SpecSession == Init /\ [][NextSession]_vars

\* One upload of one or two topics, one review of its first schedule, and a
\* deletion of the content that is called while the review is between its
\* getDoc and its updateDoc.
NextCascade ==
    \/ Tick
    \/ nextId.content = 1 /\ \E topics \in TopicLists : CreateStart("u1", topics)
    \/ CreateStep
    \/ calls[1].pc = "updateDoc" /\ calls[1].exists /\ DeleteStart(ContentId(1))
    \/ DeleteContentDoc
    \/ DeleteQuery
    \/ DeleteStep
    \/ ReviewNext(1, 1, {1}, {0, 4})
SpecCascade == Init /\ [][NextCascade]_vars

----------------------------------------------------------------------------
(* Properties *)

Schedules == DOMAIN revisionSchedules
Calls == DOMAIN calls

\* C1: once deleteStoredContent(contentId) has returned without error, none
\* of the schedules that referenced contentId when it was called is left in
\* 'revisionSchedules'.
CascadeLeavesNoSchedule ==
    (deleter.pc = "done" /\ deleter.result = "ok")
        => \A id \in deleter.atStart : id \notin Schedules

\* C2: a call whose quality is outside 0..5 writes nothing: when its
\* updateDoc returns, 'revisionSchedules' is as it was.
InvalidQualityWritesNothing ==
    [][\A c \in Calls :
          (/\ calls[c].pc = "updateDoc"
           /\ ~ValidQuality(calls[c].quality)
           /\ calls'[c].pc = "done")
              => revisionSchedules' = revisionSchedules]_vars

\* C3: a call on a schedule id that is not in the store ends in an error.
MissingScheduleIsAnError ==
    [][\A c \in Calls :
          (/\ calls[c].pc = "getDoc"
           /\ calls[c].scheduleId \notin Schedules
           /\ calls'[c].pc = "done")
              => calls'[c].result = "error"]_vars

\* C4: when createRevisionSchedulesForContent has returned, every topic of
\* the list whose save did not fail has its schedule.
EveryOtherTopicHasItsSchedule ==
    creator.pc = "done"
        => \A i \in 1..Len(creator.topics) :
              i \notin creator.failed => i \in creator.created

\* C5: a step in which a call fails leaves 'revisionSchedules' as it was,
\* and a step that changes a schedule is the whole update of one call that
\* succeeds in that step.
FailedReviewWritesNothing ==
    [][/\ (\E c \in Calls : calls'[c].result = "error" /\ calls[c].result # "error")
            => revisionSchedules' = revisionSchedules
       /\ \A id \in Schedules \cap DOMAIN revisionSchedules' :
            revisionSchedules'[id] # revisionSchedules[id]
                => \E c \in Calls :
                      /\ calls[c].pc = "updateDoc"
                      /\ calls[c].scheduleId = id
                      /\ calls'[c].result = "ok"
                      /\ revisionSchedules'[id]
                            = ApplyUpdate(revisionSchedules[id], calls[c].update)]_vars

\* C5 witness: updateDoc was rejected for a schedule that had been read, and
\* the schedule in the store is the one that was read.
ReviewWriteRejected ==
    \E c \in Calls :
        /\ calls[c].pc = "done"
        /\ calls[c].result = "error"
        /\ calls[c].exists
        /\ calls[c].scheduleId \in Schedules
        /\ revisionSchedules[calls[c].scheduleId] = calls[c].schedule

\* C6: every schedule has easeFactor >= 1.3.
EaseFactorAtLeastFloor ==
    \A id \in Schedules : revisionSchedules[id].easeFactor >= 130

\* C6 witness: a review whose unclamped ease factor was below 1.3 was stored.
EaseFactorWasClamped ==
    \E c \in Calls :
        /\ calls[c].pc = "done"
        /\ calls[c].result = "ok"
        /\ calls[c].exists
        /\ calls[c].schedule.easeFactor + EaseDelta(calls[c].quality) < 130
        /\ revisionSchedules[calls[c].scheduleId].reviewCount
              = calls[c].schedule.reviewCount + 1

\* C7: every schedule has masteryLevel in 0..100, and 0 until it is reviewed.
MasteryLevelInRange ==
    \A id \in Schedules :
        /\ revisionSchedules[id].masteryLevel \in 0..100
        /\ revisionSchedules[id].reviewCount = 0
              => revisionSchedules[id].masteryLevel = 0

\* C7 witness: a review that would have taken masteryLevel above 100 was stored.
MasteryLevelWasCapped ==
    \E c \in Calls :
        /\ calls[c].pc = "done"
        /\ calls[c].result = "ok"
        /\ calls[c].exists
        /\ calls[c].schedule.masteryLevel + (2 * calls[c].quality - 5) * 5 > 100
        /\ revisionSchedules[calls[c].scheduleId].reviewCount
              = calls[c].schedule.reviewCount + 1

\* C8: every schedule has interval >= 1.
IntervalAtLeastOneDay ==
    \A id \in Schedules : revisionSchedules[id].interval >= 1

\* C8 witness: a successful review in the exponential regime, at the ease
\* floor and from interval 1, was stored and left the interval at 1.
IntervalRoundedToOne ==
    \E c \in Calls :
        /\ calls[c].pc = "done"
        /\ calls[c].result = "ok"
        /\ calls[c].exists
        /\ calls[c].quality >= 3
        /\ calls[c].schedule.reviewCount >= 2
        /\ revisionSchedules[calls[c].scheduleId].reviewCount
              = calls[c].schedule.reviewCount + 1
        /\ revisionSchedules[calls[c].scheduleId].easeFactor = 130
        /\ revisionSchedules[calls[c].scheduleId].interval = 1

\* C9: a schedule that has been reviewed has
\* nextReviewDate = lastReviewDate + interval days.
NextReviewIsLastReviewPlusInterval ==
    \A id \in Schedules :
        revisionSchedules[id].reviewCount >= 1
            => revisionSchedules[id].nextReviewDate
                  = revisionSchedules[id].lastReviewDate
                       + revisionSchedules[id].interval * DayTicks

\* C10: a review with quality 0, 1 or 2 that was stored left interval = 1.
\* (Reviews are sequential here: the schedule in the store is the one the
\* call wrote.)
FailedRecallResetsInterval ==
    \A c \in Calls :
        (/\ calls[c].pc = "done"
         /\ calls[c].result = "ok"
         /\ calls[c].exists
         /\ calls[c].quality \in 0..2)
            => revisionSchedules[calls[c].scheduleId].interval = 1

\* C10 witness: a failed review of a schedule in the exponential regime,
\* whose interval was above 1, was stored.
FailedRecallAfterGrowth ==
    \E c \in Calls :
        /\ calls[c].pc = "done"
        /\ calls[c].result = "ok"
        /\ calls[c].exists
        /\ calls[c].quality \in 0..2
        /\ calls[c].schedule.reviewCount >= 2
        /\ calls[c].schedule.interval > 6
        /\ revisionSchedules[calls[c].scheduleId].reviewCount
              = calls[c].schedule.reviewCount + 1

\* C11: a review with quality 3, 4 or 5 that was stored left interval = 1
\* when the reviewCount it read was 0, 6 when it was 1, and otherwise the
\* integer nearest to (the interval it read) * (the easeFactor it stored).
SuccessfulRecallInterval ==
    \A c \in Calls :
        (/\ calls[c].pc = "done"
         /\ calls[c].result = "ok"
         /\ calls[c].exists
         /\ calls[c].quality \in 3..5)
            => LET prior == calls[c].schedule
                   doc == revisionSchedules[calls[c].scheduleId]
               IN  /\ prior.reviewCount = 0 => doc.interval = 1
                   /\ prior.reviewCount = 1 => doc.interval = 6
                   /\ prior.reviewCount >= 2
                         => 2 * (100 * doc.interval - prior.interval * doc.easeFactor)
                               \in (0 - 100)..100

\* C11 witness: a review in the exponential regime was stored whose interval
\* (17, from 6 and the new ease factor 2.8) is not the one the ease factor it
\* read (2.7) gives.
IntervalFromNewEase ==
    \E c \in Calls :
        /\ calls[c].pc = "done"
        /\ calls[c].result = "ok"
        /\ calls[c].exists
        /\ calls[c].quality = 5
        /\ calls[c].schedule.reviewCount >= 2
        /\ calls[c].schedule.interval = 6
        /\ calls[c].schedule.easeFactor = 270
        /\ revisionSchedules[calls[c].scheduleId].interval = 17

\* C12: the reviewCount of a schedule is the number of reviews of it that
\* were stored, and every review that was stored, whatever its quality in
\* 0..5, left reviewCount one above the one it read.
ReviewCountCountsStoredReviews ==
    /\ \A id \in Schedules : revisionSchedules[id].reviewCount = recorded[id]
    /\ \A c \in Calls :
          (/\ calls[c].pc = "done"
           /\ calls[c].result = "ok"
           /\ calls[c].exists)
              => revisionSchedules[calls[c].scheduleId].reviewCount
                    = calls[c].schedule.reviewCount + 1

\* C12 witness: a failed recall was stored after two other reviews.
FailedRecallWasCounted ==
    \E c \in Calls :
        /\ calls[c].pc = "done"
        /\ calls[c].result = "ok"
        /\ calls[c].exists
        /\ calls[c].quality \in 0..2
        /\ calls[c].schedule.reviewCount = 2
        /\ recorded[calls[c].scheduleId] = 3

\* C13: a review that was stored left easeFactor at the larger of 1.3 and
\* the easeFactor it read plus +0.10, 0, -0.14, -0.32, -0.54, -0.80 for
\* quality 5, 4, 3, 2, 1, 0.
EaseFactorFollowsQuality ==
    \A c \in Calls :
        (/\ calls[c].pc = "done"
         /\ calls[c].result = "ok"
         /\ calls[c].exists)
            => LET delta == CASE calls[c].quality = 5 -> 10
                              [] calls[c].quality = 4 -> 0
                              [] calls[c].quality = 3 -> 0 - 14
                              [] calls[c].quality = 2 -> 0 - 32
                              [] calls[c].quality = 1 -> 0 - 54
                              [] calls[c].quality = 0 -> 0 - 80
                   moved == calls[c].schedule.easeFactor + delta
               IN  revisionSchedules[calls[c].scheduleId].easeFactor
                      = IF moved < 130 THEN 130 ELSE moved

\* C13 witness: a review with quality 3 was stored and took 0.14 off the
\* ease factor.
EaseFactorLoweredByRecall ==
    \E c \in Calls :
        /\ calls[c].pc = "done"
        /\ calls[c].result = "ok"
        /\ calls[c].exists
        /\ calls[c].quality = 3
        /\ revisionSchedules[calls[c].scheduleId].easeFactor
              = calls[c].schedule.easeFactor - 14

\* C14: a review that was stored left masteryLevel at the masteryLevel it
\* read plus -25, -15, -5, +5, +15, +25 for quality 0..5, kept within 0..100.
MasteryLevelFollowsQuality ==
    \A c \in Calls :
        (/\ calls[c].pc = "done"
         /\ calls[c].result = "ok"
         /\ calls[c].exists)
            => LET step == CASE calls[c].quality = 0 -> 0 - 25
                             [] calls[c].quality = 1 -> 0 - 15
                             [] calls[c].quality = 2 -> 0 - 5
                             [] calls[c].quality = 3 -> 5
                             [] calls[c].quality = 4 -> 15
                             [] calls[c].quality = 5 -> 25
                   moved == calls[c].schedule.masteryLevel + step
               IN  revisionSchedules[calls[c].scheduleId].masteryLevel
                      = IF moved < 0 THEN 0 ELSE IF moved > 100 THEN 100 ELSE moved

\* C14 witness: a review with quality 0 was stored and took 25 off a
\* masteryLevel that reviews with quality 5 had raised.
MasteryLevelLoweredByAQuarter ==
    \E c \in Calls :
        /\ calls[c].pc = "done"
        /\ calls[c].result = "ok"
        /\ calls[c].exists
        /\ calls[c].quality = 0
        /\ calls[c].schedule.masteryLevel = 50
        /\ revisionSchedules[calls[c].scheduleId].masteryLevel = 25

\* C15: when getDueRevisions(userId) returns, its result holds every schedule
\* of userId whose nextReviewDate is at or before the `now` of the call, once
\* each, and nothing else, in ascending order of nextReviewDate.
DueResultIsAllAndOnlyDue ==
    [][(due.pc = "getDocs" /\ due'.pc = "done")
          => LET result == due'.result
             IN  /\ \A i \in 1..Len(result) : result[i] \in Schedules
                 /\ \A id \in Schedules :
                       (\E i \in 1..Len(result) : result[i] = id)
                          <=> /\ revisionSchedules[id].userId = due.userId
                              /\ revisionSchedules[id].nextReviewDate <= due.now
                 /\ \A i, j \in 1..Len(result) :
                       i < j => /\ result[i] # result[j]
                                /\ revisionSchedules[result[i]].nextReviewDate
                                      <= revisionSchedules[result[j]].nextReviewDate]_vars

\* C16: a step changes at most one schedule, the one a call of
\* updateRevisionAfterReview is writing to, and leaves its userId, contentId,
\* topicId, topicName and scheduleType as they were; and the object a call
\* hands to updateDoc is the same whatever the scheduleType it read.
ReviewChangesOnlyItsSixFields ==
    [][/\ \A id \in Schedules :
             /\ id \in DOMAIN revisionSchedules'
             /\ revisionSchedules'[id] # revisionSchedules[id]
                   => /\ \E c \in Calls : /\ calls[c].pc = "updateDoc"
                                           /\ calls'[c].pc = "done"
                                           /\ calls[c].scheduleId = id
                      /\ \A f \in {"userId", "contentId", "topicId", "topicName",
                                    "scheduleType"} :
                            revisionSchedules'[id][f] = revisionSchedules[id][f]
                      /\ \A other \in Schedules \ {id} :
                            revisionSchedules'[other] = revisionSchedules[other]
       /\ \A c \in Calls :
             calls'[c].pc = "updateDoc"
                => \A type \in {"daily", "weekly", "monthly", "custom"} :
                      LET read == [calls'[c].schedule EXCEPT !.scheduleType = type]
                      IN  /\ NewInterval(read, calls'[c].quality)
                                = NewInterval(calls'[c].schedule, calls'[c].quality)
                          /\ ReviewUpdate(read, calls'[c].quality,
                                          calls'[c].update.interval, 0, 0)
                                = ReviewUpdate(calls'[c].schedule, calls'[c].quality,
                                               calls'[c].update.interval, 0, 0)]_vars

\* C16 witness: a review of one schedule was stored while there was another
\* schedule, and the other schedule is as it was created.
ReviewStoredBesideAnotherSchedule ==
    \E c \in Calls :
        /\ calls[c].pc = "done"
        /\ calls[c].result = "ok"
        /\ calls[c].exists
        /\ revisionSchedules[calls[c].scheduleId].reviewCount >= 1
        /\ revisionSchedules[calls[c].scheduleId].scheduleType = "daily"
        /\ \E other \in Schedules \ {calls[c].scheduleId} :
              /\ revisionSchedules[other].reviewCount = 0
              /\ revisionSchedules[other].lastReviewDate = Null

\* C17: when createRevisionSchedulesForContent(userId, contentId, topics)
\* has returned, the schedules of contentId are one for each topic of the
\* list (leaving aside a topic whose own save was rejected), each with the
\* given userId, topic id and topic name, scheduleType daily, nextReviewDate
\* a day after the call, no lastReviewDate, reviewCount 0, masteryLevel 0,
\* interval 1 and easeFactor 2.5.
EachTopicHasOneSchedule ==
    creator.pc = "done"
        => /\ Cardinality(SchedulesOfContent(creator.contentId))
                 = Len(creator.topics) - Cardinality(creator.failed)
           /\ \A i \in (1..Len(creator.topics)) \ creator.failed :
                 \E id \in SchedulesOfContent(creator.contentId) :
                    /\ revisionSchedules[id].userId = creator.userId
                    /\ revisionSchedules[id].topicId = creator.topics[i].id
                    /\ revisionSchedules[id].topicName = creator.topics[i].name
                    /\ revisionSchedules[id].scheduleType = "daily"
                    /\ revisionSchedules[id].nextReviewDate = creator.tomorrow
                    /\ revisionSchedules[id].lastReviewDate = Null
                    /\ revisionSchedules[id].reviewCount = 0
                    /\ revisionSchedules[id].masteryLevel = 0
                    /\ revisionSchedules[id].interval = 1
                    /\ revisionSchedules[id].easeFactor = 250

\* C18: the write of a call that succeeds stores what the call computed from
\* the schedule it read, whatever was stored since it read: the last writer
\* wins, and reviewCount is left one above the reviewCount that call read.
LastWriterWins ==
    [][\A c \in Calls :
          (/\ calls[c].pc = "updateDoc"
           /\ calls'[c].pc = "done"
           /\ calls'[c].result = "ok")
              => LET read == calls[c].schedule
                     doc == revisionSchedules'[calls[c].scheduleId]
                 IN  /\ doc.reviewCount = read.reviewCount + 1
                     /\ doc.interval = calls[c].update.interval
                     /\ doc.easeFactor
                           = Max(130, read.easeFactor + EaseDelta(calls[c].quality))
                     /\ doc.masteryLevel
                           = Min(100, Max(0, read.masteryLevel
                                               + (2 * calls[c].quality - 5) * 5))]_vars

\* C18 witness: two calls on one schedule, with quality 5 and quality 0, read
\* the same document and both succeeded; two reviews were stored, and the
\* schedule holds reviewCount one above the one they read and the ease
\* factor and masteryLevel of the review with quality 5 alone.
LostUpdate ==
    \E c1, c2 \in Calls :
        /\ c1 # c2
        /\ calls[c1].pc = "done" /\ calls[c1].result = "ok" /\ calls[c1].exists
        /\ calls[c2].pc = "done" /\ calls[c2].result = "ok" /\ calls[c2].exists
        /\ calls[c1].scheduleId = calls[c2].scheduleId
        /\ calls[c1].schedule = calls[c2].schedule
        /\ calls[c1].quality = 5
        /\ calls[c2].quality = 0
        /\ recorded[calls[c1].scheduleId] = calls[c1].schedule.reviewCount + 2
        /\ revisionSchedules[calls[c1].scheduleId].reviewCount
              = calls[c1].schedule.reviewCount + 1
        /\ revisionSchedules[calls[c1].scheduleId].easeFactor
              = calls[c1].schedule.easeFactor + 10
        /\ revisionSchedules[calls[c1].scheduleId].masteryLevel
              = calls[c1].schedule.masteryLevel + 25

\* C19: after a review was stored, the same call made again at once, with
\* the same quality, would store a schedule that differs from the one the
\* first call left (as the first call left one that differs from the one it
\* read).
SecondReviewChangesTheSchedule ==
    \A c \in Calls :
        (/\ calls[c].pc = "done"
         /\ calls[c].result = "ok"
         /\ calls[c].exists)
            => LET doc == revisionSchedules[calls[c].scheduleId]
               IN  /\ doc # calls[c].schedule
                   /\ \A newInterval \in NewInterval(doc, calls[c].quality),
                         t2 \in {now, now + 1} :
                          ApplyUpdate(doc, ReviewUpdate(doc, calls[c].quality,
                                                        newInterval, now, t2)) # doc

\* C19 witness: a review with quality 0 was stored for a schedule already at
\* the floor of every other field (ease factor 1.3, interval 1,
\* masteryLevel 0), with the clock standing still.
ReviewAtTheFloorStored ==
    \E c \in Calls :
        /\ calls[c].pc = "done"
        /\ calls[c].result = "ok"
        /\ calls[c].exists
        /\ calls[c].quality = 0
        /\ calls[c].schedule.easeFactor = 130
        /\ calls[c].schedule.interval = 1
        /\ calls[c].schedule.masteryLevel = 0
        /\ calls[c].schedule.lastReviewDate = now
        /\ revisionSchedules[calls[c].scheduleId].lastReviewDate = now
        /\ revisionSchedules[calls[c].scheduleId].nextReviewDate
              = calls[c].schedule.nextReviewDate
        /\ revisionSchedules[calls[c].scheduleId].reviewCount
              = calls[c].schedule.reviewCount + 1

\* C20, as the spec states it: of three reviews with quality 5 of a fresh
\* schedule, the first leaves easeFactor 2.6, interval 1, masteryLevel 25,
\* reviewCount 1; the second interval 6, masteryLevel 50, reviewCount 2; the
\* third interval 16, masteryLevel 75, reviewCount 3.
ThreePerfectReviewsGiveSixteen ==
    \A c \in Calls :
        (/\ calls[c].pc = "done"
         /\ calls[c].result = "ok"
         /\ calls[c].exists
         /\ calls[c].quality = 5)
            => LET read == calls[c].schedule
                   doc == revisionSchedules[calls[c].scheduleId]
               IN  /\ (/\ read.reviewCount = 0 /\ read.interval = 1
                        /\ read.easeFactor = 250 /\ read.masteryLevel = 0)
                          => /\ doc.easeFactor = 260 /\ doc.interval = 1
                             /\ doc.masteryLevel = 25 /\ doc.reviewCount = 1
                   /\ (/\ read.reviewCount = 1 /\ read.interval = 1
                        /\ read.easeFactor = 260 /\ read.masteryLevel = 25)
                          => /\ doc.interval = 6
                             /\ doc.masteryLevel = 50 /\ doc.reviewCount = 2
                   /\ (/\ read.reviewCount = 2 /\ read.interval = 6
                        /\ read.easeFactor = 270 /\ read.masteryLevel = 50)
                          => /\ doc.interval = 16
                             /\ doc.masteryLevel = 75 /\ doc.reviewCount = 3

\* C20: of three reviews with quality 5 of a fresh schedule (reviewCount 0,
\* interval 1, easeFactor 2.5, masteryLevel 0), the first leaves easeFactor
\* 2.6, interval 1, masteryLevel 25, reviewCount 1; the second easeFactor
\* 2.7, interval 6, masteryLevel 50, reviewCount 2; the third easeFactor 2.8,
\* interval 17 = round(6 * 2.8), masteryLevel 75, reviewCount 3.
ThreePerfectReviews ==
    \A c \in Calls :
        (/\ calls[c].pc = "done"
         /\ calls[c].result = "ok"
         /\ calls[c].exists
         /\ calls[c].quality = 5)
            => LET read == calls[c].schedule
                   doc == revisionSchedules[calls[c].scheduleId]
               IN  /\ (/\ read.reviewCount = 0 /\ read.interval = 1
                        /\ read.easeFactor = 250 /\ read.masteryLevel = 0)
                          => /\ doc.easeFactor = 260 /\ doc.interval = 1
                             /\ doc.masteryLevel = 25 /\ doc.reviewCount = 1
                   /\ (/\ read.reviewCount = 1 /\ read.interval = 1
                        /\ read.easeFactor = 260 /\ read.masteryLevel = 25)
                          => /\ doc.easeFactor = 270 /\ doc.interval = 6
                             /\ doc.masteryLevel = 50 /\ doc.reviewCount = 2
                   /\ (/\ read.reviewCount = 2 /\ read.interval = 6
                        /\ read.easeFactor = 270 /\ read.masteryLevel = 50)
                          => /\ doc.easeFactor = 280 /\ doc.interval = 17
                             /\ doc.masteryLevel = 75 /\ doc.reviewCount = 3

\* C20 witness: the third review with quality 5 of a fresh schedule was
\* stored.
ThirdPerfectReviewStored ==
    \E c \in Calls :
        /\ calls[c].pc = "done"
        /\ calls[c].result = "ok"
        /\ calls[c].exists
        /\ calls[c].quality = 5
        /\ calls[c].schedule.reviewCount = 2
        /\ calls[c].schedule.interval = 6
        /\ calls[c].schedule.easeFactor = 270
        /\ calls[c].schedule.masteryLevel = 50
        /\ recorded[calls[c].scheduleId] = 3
        /\ revisionSchedules[calls[c].scheduleId].masteryLevel = 75

CascadeGoesOnAfterAFailure ==
    (deleter.pc = "done" /\ deleter.contentId \notin DOMAIN storedContent)
        => \A id \in deleter.atStart \ deleter.failed : id \notin Schedules

\* C23: a review with quality >= 3 that read reviewCount 0 and was stored is
\* the first stored review of the schedule with quality >= 3, and one that
\* read reviewCount 1 is the second.
BuildingStepsCountRecalls ==
    \A c \in Calls :
        (/\ calls[c].pc = "done"
         /\ calls[c].result = "ok"
         /\ calls[c].exists
         /\ calls[c].quality >= 3)
            => /\ calls[c].schedule.reviewCount = 0
                     => recalled[calls[c].scheduleId] = 1
               /\ calls[c].schedule.reviewCount = 1
                     => recalled[calls[c].scheduleId] = 2

\* C24: the nextReviewDate a review computes is at least a day after the
\* clock it reads, whatever the quality, and is what its updateDoc stores;
\* and getDueRevisions returns no schedule whose nextReviewDate is after the
\* `now` of the query.  (So a schedule whose review was stored is in no
\* answer to a query made less than a day after that review was called.)
ReviewedScheduleIsNotDue ==
    [][/\ \A c \in Calls :
             (calls[c].pc = "getDoc" /\ calls'[c].pc = "updateDoc")
                => calls'[c].update.nextReviewDate >= now + DayTicks
       /\ \A c \in Calls :
             (calls[c].pc = "updateDoc" /\ calls'[c].pc = "done"
                                       /\ calls'[c].result = "ok")
                => revisionSchedules'[calls[c].scheduleId].nextReviewDate
                      = calls[c].update.nextReviewDate
       /\ (due.pc = "getDocs" /\ due'.pc = "done")
             => \A i \in 1..Len(due'.result) :
                   revisionSchedules[due'.result[i]].nextReviewDate <= due.now]_vars

\* C24 witness: a schedule was due, its review (a failed recall) was stored,
\* and a query with a `now` at which it would have been due before the
\* review was answered without it.
ReviewedScheduleLeftOut ==
    \E c \in Calls :
        /\ calls[c].pc = "done"
        /\ calls[c].result = "ok"
        /\ calls[c].exists
        /\ calls[c].quality = 0
        /\ recorded[calls[c].scheduleId] = 1
        /\ revisionSchedules[calls[c].scheduleId].userId = due.userId
        /\ revisionSchedules[calls[c].scheduleId].nextReviewDate > due.now
        /\ calls[c].schedule.nextReviewDate <= due.now
        /\ due.pc = "done"
        /\ ~due.caught
        /\ due.result = << >>

\* C25: the schedule a session shows for rating was due in the store, for
\* the user, when that session started.
PresentedScheduleWasDueAtStart ==
    (/\ ui.isDoingRevision
     /\ ui.currentRevisionIndex < Len(ui.dueRevisions))
        => ui.dueRevisions[ui.currentRevisionIndex + 1] \in ui.dueAtStart

\* C26: no two updates that the rating buttons of one session started were
\* stored for the same schedule.
OneStoredReviewPerSessionItem ==
    \A c1, c2 \in Calls :
        (/\ c1 # c2
         /\ ui.handlers[c1].session >= 1
         /\ ui.handlers[c1].session = ui.handlers[c2].session
         /\ calls[c1].scheduleId = calls[c2].scheduleId
         /\ calls[c1].pc = "done" /\ calls[c1].result = "ok" /\ calls[c1].exists)
            => ~(calls[c2].pc = "done" /\ calls[c2].result = "ok" /\ calls[c2].exists)

\* C30: while isDoingRevision is true, currentRevisionIndex is at least 0
\* and below dueRevisions.length.
RevisionIndexInRange ==
    ui.isDoingRevision
        => /\ 0 <= ui.currentRevisionIndex
           /\ ui.currentRevisionIndex < Len(ui.dueRevisions)

\* C27: a call whose getDoc was rejected ends there, with an error, and
\* hands nothing to updateDoc; a call whose updateDoc was rejected ends with
\* an error; and a write is applied only as the one updateDoc of a call,
\* which ends the call.
ReviewFailureIsSurfaced ==
    [][/\ \A c \in Calls :
             (/\ calls[c].pc = "getDoc"
              /\ calls'[c].pc # "getDoc"
              /\ ~calls'[c].exists)
                 => /\ calls'[c].pc = "done"
                    /\ calls[c].scheduleId \in Schedules => calls'[c].result = "error"
       /\ \A c \in Calls :
             (/\ calls[c].pc = "updateDoc"
              /\ calls'[c].pc # "updateDoc"
              /\ recorded' = recorded)
                 => calls'[c].pc = "done" /\ calls'[c].result = "error"
       /\ \A c \in Calls :
             calls'[c].pc = "updateDoc" => calls[c].pc \in {"getDoc", "updateDoc"}
       /\ (recorded' # recorded \/ revisionSchedules' # revisionSchedules)
             => \/ \E c \in Calls : /\ calls[c].pc = "updateDoc"
                                    /\ calls[c].exists
                                    /\ calls'[c].pc = "done"
                \/ creator' # creator]_vars

\* C27 witness: the getDoc of a call on a schedule that is in the store was
\* rejected; the call ended with an error and the schedule was not written.
ReviewReadRejected ==
    \E c \in Calls :
        /\ calls[c].pc = "done"
        /\ calls[c].result = "error"
        /\ ~calls[c].exists
        /\ calls[c].scheduleId \in Schedules
        /\ recorded[calls[c].scheduleId] = 0
        /\ revisionSchedules[calls[c].scheduleId].reviewCount = 0

\* C28: a review with quality >= 3 that was stored left an interval that is
\* not below the interval it read: 1 from the initial 1, then 6, then the
\* integer nearest to at least 1.3 times the interval read, also when that
\* interval is the 1 a failed review left.
IntervalNeverShrinksOnRecall ==
    \A c \in Calls :
        (/\ calls[c].pc = "done"
         /\ calls[c].result = "ok"
         /\ calls[c].exists
         /\ calls[c].quality >= 3)
            => LET read == calls[c].schedule
                   doc == revisionSchedules[calls[c].scheduleId]
               IN  /\ doc.interval >= read.interval
                   /\ read.reviewCount = 0 => read.interval = 1 /\ doc.interval = 1
                   /\ read.reviewCount = 1 => read.interval = 1 /\ doc.interval = 6
                   /\ read.reviewCount >= 2
                         => 200 * doc.interval >= 260 * read.interval - 100

\* C28 witness: a successful review was stored for a schedule whose
\* interval an earlier failed review, made after the two building steps,
\* had reset to 1, and it raised the interval.
RecallAfterResetStored ==
    \E c \in Calls :
        /\ calls[c].pc = "done"
        /\ calls[c].result = "ok"
        /\ calls[c].exists
        /\ calls[c].quality >= 3
        /\ calls[c].schedule.reviewCount >= 3
        /\ calls[c].schedule.interval = 1
        /\ recalled[calls[c].scheduleId] = 3
        /\ revisionSchedules[calls[c].scheduleId].interval = 2

\* C29: when the updateDoc of a review returns after a deletion of the
\* schedule's content, called after the review's getDoc, has returned
\* without error, the schedule is not in the store and the review ends in an
\* error.
CascadeBeforeTheWriteFailsTheReview ==
    [][\A c \in Calls :
          (/\ calls[c].pc = "updateDoc"
           /\ calls[c].exists
           /\ calls'[c].pc = "done"
           /\ deleter.pc = "done"
           /\ deleter.result = "ok"
           /\ calls[c].scheduleId \in deleter.atStart)
              => /\ calls[c].scheduleId \notin DOMAIN revisionSchedules'
                 /\ calls'[c].result = "error"]_vars

====
